---- MODULE Spec2Model ----
(***************************************************************************)
(* The adaptive actuator control loop of the aquaponics backend            *)
(* (src/backend/main.py): reading store, bounded history log, target       *)
(* configuration, Q-table, actuator registry, and the request handlers     *)
(* that read and write them.                                               *)
(*                                                                         *)
(* Numbers.  The program holds readings, targets and percentages as        *)
(* Python floats.  The model holds them in exact fixed point: a sensor or  *)
(* actuator number x is held as the integer x * H (hundredths), and a Q    *)
(* estimate q as the integer q * QScale.  A control-loop pass is modelled  *)
(* only where its arithmetic is exact in that representation (Exact), so   *)
(* no rounding is invented.  The rounding of the floats themselves is in   *)
(* a second form of the pass (auto_adjust_actuators_float), which holds    *)
(* the Q estimates as binary64 numbers and is run by SpecFloat.            *)
(*                                                                         *)
(* Dictionaries are functions whose DOMAIN is the set of keys present.     *)
(***************************************************************************)
EXTENDS Integers, Sequences, FiniteSets, TLC

VARIABLES MODE, latest_readings, history_readings, actuator_states, q_values,
          TARGET_CONFIG, real_recipes, now, resp, threads, epoch

vars == <<MODE, latest_readings, history_readings, actuator_states, q_values,
          TARGET_CONFIG, real_recipes, now, resp, threads, epoch>>

----------------------------------------------------------------------------
(* Representation *)

\* One unit of a sensor or actuator number is 1/H.
H == 100

\* Bound: how many updates of one Q estimate the fixed point holds exactly.
MaxUpdates == 2

\* One unit of a Q estimate is 1/QScale.
QScale == H * (10 ^ MaxUpdates)

Abs(x) == IF x < 0 THEN -x ELSE x

EmptyDict == [k \in {} |-> 0]

\* Mutant: the store replaced by the batch instead of updated with it
MergeReplace(d, e) == e

\* dict.update(e) / d[k] = v for every item of e
Merge(d, e) ==
  [k \in DOMAIN d \cup DOMAIN e |-> IF k \in DOMAIN e THEN e[k] ELSE d[k]]

\* d[k] = v
Put(d, k, v) == [x \in DOMAIN d \cup {k} |-> IF x = k THEN v ELSE d[x]]

\* A JSON value held by the actuator registry: a string or a number.
Str(s) == [kind |-> "str", s |-> s, n |-> 0]
Num(n) == [kind |-> "num", s |-> "", n |-> n]

----------------------------------------------------------------------------
(* Static configuration *)

SensorKeys ==
  <<"co2_ppm", "air_temp_celsius", "humidity_percent", "light_intensity_lux",
    "pH", "water_temp_celsius", "water_flow_rate_lpm", "audio_frequency_hz",
    "audio_decibels_db", "light_cycle_hours", "light_brightness_percent",
    "light_pulse_freq_hz">>

Config(vals) ==
  [k \in {SensorKeys[i] : i \in 1..Len(SensorKeys)} |->
     vals[CHOOSE i \in 1..Len(SensorKeys) : SensorKeys[i] = k]]

Recipe(plant, config) == [plant |-> plant, optimal_config |-> config]

demo_recipes ==
  <<
       Recipe("Radish", Config(<<60000, 2200, 6000, 50000, 650, 2200, 200, 100000, 6000, 1200, 8000, 100>>)),
       Recipe("Sunflower", Config(<<60000, 2300, 5500, 55000, 650, 2200, 250, 80000, 5500, 1400, 8500, 120>>)),
       Recipe("Pea Shoots", Config(<<60000, 2100, 6000, 45000, 660, 2100, 200, 90000, 5500, 1200, 7500, 100>>)),
       Recipe("Broccoli", Config(<<60000, 2200, 6000, 50000, 650, 2200, 200, 100000, 6000, 1200, 8000, 100>>)),
       Recipe("Cilantro", Config(<<65000, 2100, 6500, 48000, 640, 2200, 180, 90000, 5000, 1200, 7500, 100>>)),
       Recipe("Basil", Config(<<65000, 2400, 5500, 55000, 620, 2300, 220, 100000, 6000, 1400, 8500, 100>>)),
       Recipe("Kale", Config(<<60000, 2100, 6000, 48000, 650, 2200, 200, 95000, 5500, 1200, 7500, 100>>)),
       Recipe("Mustard", Config(<<60000, 2200, 6000, 50000, 650, 2200, 200, 100000, 6000, 1200, 8000, 100>>)),
       Recipe("Arugula", Config(<<60000, 2100, 6000, 48000, 650, 2200, 200, 95000, 5500, 1200, 7500, 100>>)),
       Recipe("Cabbage", Config(<<60000, 2200, 6000, 50000, 650, 2200, 200, 100000, 6000, 1200, 8000, 100>>))
  >>

\* The keys of the mappings dict of auto_adjust_actuators, in iteration order.
MappingKeys ==
  <<"co2_ppm", "air_temp_celsius", "humidity_percent", "water_flow_rate_lpm",
    "audio_decibels_db", "light_brightness_percent">>

ActuatorIds ==
  {"co2_valve", "grow_lights", "water_pump", "drip_valves", "fans", "heaters",
   "aerators", "audio_transducers", "cameras"}

\* The history log keeps at most this many entries.
HistoryCap == 1000

----------------------------------------------------------------------------
(* Initial state: the module's globals after import *)

InitActuators ==
  [d \in ActuatorIds |->
     IF d \in {"grow_lights", "fans", "audio_transducers"} THEN Num(0)
     ELSE Str("off")]

\* The last call that returned: its name, its arguments, the HTTP status
\* (0 for a plain function call) and the value returned.
Response(op, args, status, body) ==
  [op |-> op, args |-> args, status |-> status, body |-> body]

\* A request worker: where it is in the handler it runs, and that handler's
\* local variables.
Idle ==
  [pc |-> "idle", i |-> 0, target |-> 0, value |-> 0, action |-> 0,
   current_q |-> 0, plant |-> "", config |-> EmptyDict]

\* FastAPI runs the def handlers on a pool of worker threads.
Threads == {"t1", "t2"}

\* Bound: passes of the control loop in a run of SpecConc.
MaxPasses == 2

\* Ghost: the Q-table when the first pass began, how many passes have begun
\* (counted up to MaxPasses + 1, which stands for "more than MaxPasses"), and
\* whether readings, target and mode have stayed as they were since.
NoEpoch == [q0 |-> EmptyDict, n |-> 0, steady |-> FALSE]

Init ==
  /\ MODE = "demo"
  /\ latest_readings = EmptyDict
  /\ history_readings = <<>>
  /\ actuator_states = InitActuators
  /\ q_values = EmptyDict
  /\ TARGET_CONFIG = demo_recipes[1].optimal_config
  /\ real_recipes = <<>>
  /\ now = 0
  /\ resp = Response("none", 0, 0, 0)
  /\ threads = [t \in Threads |-> Idle]
  /\ epoch = NoEpoch

----------------------------------------------------------------------------
(* POST /mode *)

set_mode(mode) ==
  /\ IF mode \notin {"demo", "real"}
       THEN /\ resp' = Response("set_mode", mode, 400, 0)
            /\ UNCHANGED MODE
       ELSE /\ MODE' = mode
            /\ resp' = Response("set_mode", mode, 200, mode)
  /\ UNCHANGED <<latest_readings, history_readings, actuator_states, q_values,
                 TARGET_CONFIG, real_recipes, now>>

----------------------------------------------------------------------------
(* POST /sensor/readings *)

\* Mutant: history_readings.pop() in place of pop(0)
TrimmedPopLast(log) ==
  IF Len(log) > HistoryCap THEN SubSeq(log, 1, Len(log) - 1) ELSE log

\* history_readings after the append and the trim
Trimmed(log) == IF Len(log) > HistoryCap THEN Tail(log) ELSE log

HistoryEntry(ts, readings) == [timestamp |-> ts, readings |-> readings]

\* The timestamp is the clock reading; the clock advances with every ingest.
ingest_sensor_readings(readings) ==
  /\ IF MODE # "real"
       THEN /\ resp' = Response("ingest", readings, 400, 0)
            /\ UNCHANGED <<latest_readings, history_readings, now>>
       ELSE /\ latest_readings' = Merge(latest_readings, readings)
            /\ now' = now + 1
            /\ history_readings' =
                 Trimmed(Append(history_readings, HistoryEntry(now + 1, readings)))
            /\ resp' = Response("ingest", readings, 200, Cardinality(DOMAIN readings))
  /\ UNCHANGED <<MODE, actuator_states, q_values, TARGET_CONFIG, real_recipes>>

\* Mutant: the limit capped at the length of the log but not raised to 1
ClampNoFloor(limit, n) == IF limit < n THEN limit ELSE n

\* max(1, min(limit, len(history_readings)))
Clamp(limit, n) ==
  LET m == IF limit < n THEN limit ELSE n
  IN  IF 1 > m THEN 1 ELSE m

\* log[-limit:] : a negative start counts from the end, -0 is the start of the
\* list, and a start outside the list is brought back to its nearest end.
LastSlice(log, limit) ==
  LET n     == Len(log)
      start == IF limit > 0 THEN (IF n - limit > 0 THEN n - limit ELSE 0)
               ELSE (IF -limit < n THEN -limit ELSE n)
  IN  SubSeq(log, start + 1, n)

\* GET /sensors/history
get_sensor_history(limit) ==
  /\ IF MODE # "real" \/ history_readings = <<>>
       THEN resp' = Response("history", limit, 200, <<>>)
       ELSE resp' = Response("history", limit, 200,
                      LastSlice(history_readings,
                                Clamp(limit, Len(history_readings))))
  /\ UNCHANGED <<MODE, latest_readings, history_readings, actuator_states,
                 q_values, TARGET_CONFIG, real_recipes, now>>

----------------------------------------------------------------------------
(* The controller: choose_action, update_q, the mappings, one pass *)

ZeroRow == [a \in {-1, 0, 1} |-> 0]

\* if sensor not in q_values: q_values[sensor] = {-1: 0.0, 0: 0.0, 1: 0.0}
WithRow(q, sensor) == IF sensor \in DOMAIN q THEN q ELSE Put(q, sensor, ZeroRow)

\* Mutant: among equal estimates the last key of the row wins
BestActionLast(row) ==
  IF row[1] >= row[0] /\ row[1] >= row[-1] THEN 1
  ELSE IF row[0] >= row[-1] THEN 0
  ELSE -1

\* max(actions, key=actions.get): the first key, in the row's insertion order
\* -1, 0, 1, whose estimate no later key exceeds strictly.
BestAction(row) ==
  IF row[-1] >= row[0] /\ row[-1] >= row[1] THEN -1
  ELSE IF row[0] >= row[1] THEN 0
  ELSE 1

\* choose_action returns the action; its effect on q_values is WithRow.
choose_action(q, sensor) == BestAction(WithRow(q, sensor)[sensor])

\* Mutant: the absolute error taken as the reward, without the minus sign
RewardUnsigned(value, target) == Abs(value - target) * (QScale \div H)

\* reward = -abs(value - target), in Q units
Reward(value, target) == -Abs(value - target) * (QScale \div H)

\* lr * (reward - current_q) with lr = 0.1 is held exactly iff this holds.
Exact(current_q, value, target) == (Reward(value, target) - current_q) % 10 = 0

\* Mutant: the step towards the reward taken without the pull from current_q
LearnedNoDecay(current_q, value, target) ==
  current_q + (Reward(value, target) \div 10)

\* current_q + lr * (reward - current_q), lr = 0.1
Learned(current_q, value, target) ==
  current_q + ((Reward(value, target) - current_q) \div 10)

update_q(q, sensor, action, value, target) ==
  LET q1 == WithRow(q, sensor)
  IN  Put(q1, sensor,
          [q1[sensor] EXCEPT ![action] = Learned(q1[sensor][action], value, target)])

\* dict.get(key, default)
Get(d, k, default) == IF k \in DOMAIN d THEN d[k] ELSE default

\* Mutant: the two target-following mappings made to depend on the action
\* (the target on Increase, 0 otherwise), as the fans mapping does
apply_actionDriven(sensor_key, a, acts, target_config) ==
  CASE sensor_key = "co2_ppm" ->
         Put(acts, "co2_valve", IF a = 1 THEN Str("on") ELSE Str("off"))
    [] sensor_key = "air_temp_celsius" ->
         Put(Put(acts, "heaters", IF a = 1 THEN Str("on") ELSE Str("off")),
             "fans", IF a = -1 THEN Num(50 * H) ELSE Num(0))
    [] sensor_key = "humidity_percent" ->
         Put(acts, "fans",
             IF a = 1 THEN Num(75 * H)
             ELSE IF a = -1 THEN Num(25 * H)
             ELSE Get(acts, "fans", Num(0)))
    [] sensor_key = "water_flow_rate_lpm" ->
         Put(acts, "water_pump", IF a = 1 THEN Str("on") ELSE Str("off"))
    [] sensor_key = "audio_decibels_db" ->
         Put(acts, "audio_transducers",
             IF a = 1 THEN Num(Get(target_config, "audio_decibels_db", 0))
             ELSE Num(0))
    [] sensor_key = "light_brightness_percent" ->
         Put(acts, "grow_lights",
             IF a = 1 THEN Num(Get(target_config, "light_brightness_percent", 0))
             ELSE Num(0))

\* mappings[sensor_key](a): the registry after the lambda has run
apply_action(sensor_key, a, acts, target_config) ==
  CASE sensor_key = "co2_ppm" ->
         Put(acts, "co2_valve", IF a = 1 THEN Str("on") ELSE Str("off"))
    [] sensor_key = "air_temp_celsius" ->
         Put(Put(acts, "heaters", IF a = 1 THEN Str("on") ELSE Str("off")),
             "fans", IF a = -1 THEN Num(50 * H) ELSE Num(0))
    [] sensor_key = "humidity_percent" ->
         Put(acts, "fans",
             IF a = 1 THEN Num(75 * H)
             ELSE IF a = -1 THEN Num(25 * H)
             ELSE Get(acts, "fans", Num(0)))
    [] sensor_key = "water_flow_rate_lpm" ->
         Put(acts, "water_pump", IF a = 1 THEN Str("on") ELSE Str("off"))
    [] sensor_key = "audio_decibels_db" ->
         Put(acts, "audio_transducers",
             IF "audio_decibels_db" \in DOMAIN target_config
               THEN Num(target_config["audio_decibels_db"]) ELSE Num(0))
    [] sensor_key = "light_brightness_percent" ->
         Put(acts, "grow_lights",
             IF "light_brightness_percent" \in DOMAIN target_config
               THEN Num(target_config["light_brightness_percent"]) ELSE Num(0))

\* target is None or value is None
Skipped(sensor_key, target_config, readings) ==
  sensor_key \notin DOMAIN target_config \/ sensor_key \notin DOMAIN readings

\* Mutant: choose_action called before the test for a missing reading or target
LoopBodyEager(sensor_key, st, target_config, readings) ==
  IF Skipped(sensor_key, target_config, readings)
    THEN [st EXCEPT !.q = WithRow(st.q, sensor_key)]
  ELSE LET target == target_config[sensor_key]
           value  == readings[sensor_key]
           action == choose_action(st.q, sensor_key)
           q1     == WithRow(st.q, sensor_key)
       IN  [acts  |-> apply_action(sensor_key, action, st.acts, target_config),
            q     |-> update_q(q1, sensor_key, action, value, target),
            exact |-> st.exact /\ Exact(q1[sensor_key][action], value, target)]

\* One iteration of the for loop over mappings, on the triple
\* st = [acts, q, exact].
LoopBody(sensor_key, st, target_config, readings) ==
  IF Skipped(sensor_key, target_config, readings) THEN st
  ELSE LET target == target_config[sensor_key]
           value  == readings[sensor_key]
           action == choose_action(st.q, sensor_key)
           q1     == WithRow(st.q, sensor_key)
       IN  [acts  |-> apply_action(sensor_key, action, st.acts, target_config),
            q     |-> update_q(q1, sensor_key, action, value, target),
            exact |-> st.exact /\ Exact(q1[sensor_key][action], value, target)]

RECURSIVE Pass(_, _, _, _)
\* The for loop from its i-th key on.
Pass(i, st, target_config, readings) ==
  IF i > Len(MappingKeys) THEN st
  ELSE Pass(i + 1, LoopBody(MappingKeys[i], st, target_config, readings),
            target_config, readings)

\* auto_adjust_actuators(), run without interruption
auto_adjust_actuators ==
  LET st == Pass(1, [acts |-> actuator_states, q |-> q_values, exact |-> TRUE],
                 TARGET_CONFIG, latest_readings)
  IN  /\ MODE = "real" => st.exact
      /\ IF MODE # "real"
           THEN UNCHANGED <<actuator_states, q_values>>
           ELSE /\ actuator_states' = st.acts
                /\ q_values' = st.q
      /\ resp' = Response("auto_adjust", 0, 0, 0)
      /\ UNCHANGED <<MODE, latest_readings, history_readings, TARGET_CONFIG,
                     real_recipes, now>>

----------------------------------------------------------------------------
(* GET /ai *)

\* threshold = 0.05, as a percentage
ThresholdPct == 5

\* Mutant: delta < acceptable in place of delta <= acceptable
recommendStrict(key, target_config, readings) ==
  IF key \notin DOMAIN target_config \/ key \notin DOMAIN readings THEN "None"
  ELSE LET target == target_config[key]
           value  == readings[key]
           delta  == Abs(value - target)
           acceptable100 == IF Abs(target) > 0 THEN ThresholdPct * Abs(target)
                            ELSE ThresholdPct * H
       IN  IF 100 * delta < acceptable100 THEN "maintain"
           ELSE IF value < target THEN "increase" ELSE "decrease"

\* recommend(key), with None as the string "None".  delta <= acceptable is
\* compared after multiplying both sides by 100.
recommend(key, target_config, readings) ==
  IF key \notin DOMAIN target_config \/ key \notin DOMAIN readings THEN "None"
  ELSE LET target == target_config[key]
           value  == readings[key]
           delta  == Abs(value - target)
           acceptable100 == IF Abs(target) > 0 THEN ThresholdPct * Abs(target)
                            ELSE ThresholdPct * H
       IN  IF 100 * delta <= acceptable100 THEN "maintain"
           ELSE IF value < target THEN "increase" ELSE "decrease"

AdjustKeys ==
  <<"adjust_co2", "adjust_air_temp", "adjust_humidity", "adjust_light_intensity",
    "adjust_pH", "adjust_water_temp", "adjust_water_flow_rate",
    "adjust_audio_frequency", "adjust_audio_decibels", "adjust_light_cycle",
    "adjust_light_brightness", "adjust_light_pulse_freq">>

AdjustSet == {AdjustKeys[i] : i \in 1..Len(AdjustKeys)}

\* The sensor key the response key reports on.
SensorOf(adjust) ==
  SensorKeys[CHOOSE i \in 1..Len(AdjustKeys) : AdjustKeys[i] = adjust]

\* A sample of the suggestions random.choice draws in demo mode: every key
\* gets the same one of three labels.
DemoDraws == {"increase", "decrease", "maintain"}

get_ai_recommendations ==
  /\ IF MODE = "demo"
       THEN \E draw \in DemoDraws :
              resp' = Response("get_ai", 0, 200, [a \in AdjustSet |-> draw])
       ELSE resp' = Response("get_ai", 0, 200,
                      [a \in AdjustSet |->
                         recommend(SensorOf(a), TARGET_CONFIG, latest_readings)])
  /\ UNCHANGED <<MODE, latest_readings, history_readings, actuator_states,
                 q_values, TARGET_CONFIG, real_recipes, now>>

----------------------------------------------------------------------------
(* GET and POST /target-config, POST /recipes *)

\* str.lower() on the plant names the model uses
Lower(s) ==
  CASE s = "Radish" -> "radish"
    [] s = "Sunflower" -> "sunflower"
    [] s = "Pea Shoots" -> "pea shoots"
    [] s = "Broccoli" -> "broccoli"
    [] s = "Cilantro" -> "cilantro"
    [] s = "Basil" -> "basil"
    [] s = "Kale" -> "kale"
    [] s = "Mustard" -> "mustard"
    [] s = "Arugula" -> "arugula"
    [] s = "Cabbage" -> "cabbage"
    [] s = "Lab" -> "lab"
    [] s = "Bench" -> "bench"
    [] OTHER -> s

\* str.strip() on the request strings the model uses
Strip(s) ==
  CASE s = " Sunflower " -> "Sunflower"
    [] OTHER -> s

RECURSIVE FirstMatch(_, _, _)
\* next((r for r in all_recipes if r["plant"].lower() == plant_name), None),
\* as the index of the match or 0
FirstMatch(all_recipes, plant_name, i) ==
  IF i > Len(all_recipes) THEN 0
  ELSE IF Lower(all_recipes[i].plant) = plant_name THEN i
  ELSE FirstMatch(all_recipes, plant_name, i + 1)

get_target_config ==
  /\ resp' = Response("get_target", 0, 200, TARGET_CONFIG)
  /\ UNCHANGED <<MODE, latest_readings, history_readings, actuator_states,
                 q_values, TARGET_CONFIG, real_recipes, now>>

\* set_target_config, run without interruption: clear() then update()
set_target_config(plant) ==
  LET plant_name  == Lower(Strip(plant))
      all_recipes == demo_recipes \o real_recipes
      match       == FirstMatch(all_recipes, plant_name, 1)
  IN  /\ IF match = 0
           THEN /\ resp' = Response("set_target", plant, 404, 0)
                /\ UNCHANGED TARGET_CONFIG
           ELSE /\ TARGET_CONFIG' = Merge(EmptyDict, all_recipes[match].optimal_config)
                /\ resp' = Response("set_target", plant, 200, TARGET_CONFIG')
      /\ UNCHANGED <<MODE, latest_readings, history_readings, actuator_states,
                     q_values, real_recipes, now>>

add_recipe(recipe) ==
  /\ IF MODE # "real"
       THEN /\ resp' = Response("add_recipe", recipe, 400, 0)
            /\ UNCHANGED real_recipes
       ELSE /\ real_recipes' = Append(real_recipes, recipe)
            /\ resp' = Response("add_recipe", recipe, 200, Len(real_recipes'))
  /\ UNCHANGED <<MODE, latest_readings, history_readings, actuator_states,
                 q_values, TARGET_CONFIG, now>>

----------------------------------------------------------------------------
(* GET and POST /actuators/{device} *)

get_actuator(device) ==
  /\ IF device \notin DOMAIN actuator_states
       THEN resp' = Response("get_actuator", device, 404, 0)
       ELSE resp' = Response("get_actuator", device, 200, [dev |-> device, state |-> actuator_states[device]])
  /\ UNCHANGED <<MODE, latest_readings, history_readings, actuator_states,
                 q_values, TARGET_CONFIG, real_recipes, now>>

\* Mutant: the assignment to actuator_states[device] left out
StoredNot(acts, device, state) == acts

\* actuator_states[device] = state["state"]
Stored(acts, device, state) == Put(acts, device, state["state"])

\* state is the request body, a dict
set_actuator(device, state) ==
  /\ IF MODE # "real"
       THEN /\ resp' = Response("set_actuator", [device |-> device, state |-> state], 400, "mode")
            /\ UNCHANGED actuator_states
       ELSE IF device \notin DOMAIN actuator_states
       THEN /\ resp' = Response("set_actuator", [device |-> device, state |-> state], 404, "unknown")
            /\ UNCHANGED actuator_states
       ELSE IF "state" \notin DOMAIN state
       THEN /\ resp' = Response("set_actuator", [device |-> device, state |-> state], 400, "body")
            /\ UNCHANGED actuator_states
       ELSE /\ actuator_states' = Stored(actuator_states, device, state)
            /\ resp' = Response("set_actuator", [device |-> device, state |-> state], 200,
                                [dev |-> device, state |-> actuator_states'[device]])
  /\ UNCHANGED <<MODE, latest_readings, history_readings, q_values,
                 TARGET_CONFIG, real_recipes, now>>

----------------------------------------------------------------------------
(* auto_adjust_actuators and set_target_config run by worker threads, one    *)
(* step at a time.  A step is at most one read or one write of a shared     *)
(* dict, except that the two reads at the head of the loop body are one     *)
(* step (they read different dicts, and every other step writes at most one *)
(* of the two).                                                             *)

Disturbed == epoch' = [epoch EXCEPT !.steady = FALSE]

\* if MODE != "real": return
tick_start(t) ==
  /\ threads[t].pc = "idle"
  /\ IF MODE # "real"
       THEN /\ resp' = Response("auto_adjust", 0, 0, 0)
            /\ UNCHANGED <<threads, epoch>>
       ELSE /\ threads' = [threads EXCEPT ![t] = [Idle EXCEPT !.pc = "loop", !.i = 1]]
            /\ epoch' = IF epoch.n = 0 THEN [q0 |-> q_values, n |-> 1, steady |-> TRUE]
                        ELSE [epoch EXCEPT !.n = IF @ <= MaxPasses THEN @ + 1 ELSE @]
            /\ UNCHANGED resp
  /\ UNCHANGED <<MODE, latest_readings, history_readings, actuator_states,
                 q_values, TARGET_CONFIG, real_recipes, now>>

\* for sensor_key, apply_action in mappings.items(): target = ...; value = ...;
\* if target is None or value is None: continue
tick_loop(t) ==
  LET th == threads[t] IN
  /\ th.pc = "loop"
  /\ IF th.i > Len(MappingKeys)
       THEN /\ threads' = [threads EXCEPT ![t] = Idle]
            /\ resp' = Response("auto_adjust", 0, 0, 0)
       ELSE /\ UNCHANGED resp
            /\ IF Skipped(MappingKeys[th.i], TARGET_CONFIG, latest_readings)
                 THEN threads' = [threads EXCEPT ![t].i = th.i + 1]
                 ELSE threads' = [threads EXCEPT
                                    ![t].pc = "chk",
                                    ![t].target = TARGET_CONFIG[MappingKeys[th.i]],
                                    ![t].value = latest_readings[MappingKeys[th.i]]]
  /\ UNCHANGED <<MODE, latest_readings, history_readings, actuator_states,
                 q_values, TARGET_CONFIG, real_recipes, now, epoch>>

\* choose_action: if sensor not in q_values
tick_chk(t) ==
  LET th == threads[t] IN
  /\ th.pc = "chk"
  /\ threads' = [threads EXCEPT ![t].pc =
                   IF MappingKeys[th.i] \in DOMAIN q_values THEN "select" ELSE "init"]
  /\ UNCHANGED <<MODE, latest_readings, history_readings, actuator_states,
                 q_values, TARGET_CONFIG, real_recipes, now, resp, epoch>>

\* choose_action: q_values[sensor] = {-1: 0.0, 0: 0.0, 1: 0.0}
tick_init(t) ==
  LET th == threads[t] IN
  /\ th.pc = "init"
  /\ q_values' = Put(q_values, MappingKeys[th.i], ZeroRow)
  /\ threads' = [threads EXCEPT ![t].pc = "select"]
  /\ UNCHANGED <<MODE, latest_readings, history_readings, actuator_states,
                 TARGET_CONFIG, real_recipes, now, resp, epoch>>

\* choose_action: best_action = max(actions, key=actions.get)
tick_select(t) ==
  LET th == threads[t] IN
  /\ th.pc = "select"
  /\ threads' = [threads EXCEPT ![t].pc = "apply",
                                ![t].action = BestAction(q_values[MappingKeys[th.i]])]
  /\ UNCHANGED <<MODE, latest_readings, history_readings, actuator_states,
                 q_values, TARGET_CONFIG, real_recipes, now, resp, epoch>>

\* apply_action(action)
tick_apply(t) ==
  LET th == threads[t] IN
  /\ th.pc = "apply"
  /\ actuator_states' =
       apply_action(MappingKeys[th.i], th.action, actuator_states, TARGET_CONFIG)
  /\ threads' = [threads EXCEPT ![t].pc = "uq_read"]
  /\ UNCHANGED <<MODE, latest_readings, history_readings, q_values,
                 TARGET_CONFIG, real_recipes, now, resp, epoch>>

\* update_q: current_q = q_values[sensor][action]
tick_uq_read(t) ==
  LET th == threads[t] IN
  /\ th.pc = "uq_read"
  /\ q_values' = WithRow(q_values, MappingKeys[th.i])
  /\ threads' = [threads EXCEPT ![t].pc = "uq_write",
                                ![t].current_q = q_values'[MappingKeys[th.i]][th.action]]
  /\ UNCHANGED <<MODE, latest_readings, history_readings, actuator_states,
                 TARGET_CONFIG, real_recipes, now, resp, epoch>>

\* update_q: q_values[sensor][action] = current_q + lr * (reward - current_q)
tick_uq_write(t) ==
  LET th  == threads[t]
      key == MappingKeys[th.i]
  IN
  /\ th.pc = "uq_write"
  /\ Exact(th.current_q, th.value, th.target)
  /\ q_values' = Put(q_values, key,
                     [q_values[key] EXCEPT
                        ![th.action] = Learned(th.current_q, th.value, th.target)])
  /\ threads' = [threads EXCEPT ![t] = [Idle EXCEPT !.pc = "loop", !.i = th.i + 1]]
  /\ UNCHANGED <<MODE, latest_readings, history_readings, actuator_states,
                 TARGET_CONFIG, real_recipes, now, resp, epoch>>

\* set_target_config up to and including TARGET_CONFIG.clear()
target_clear(t, plant) ==
  LET plant_name  == Lower(Strip(plant))
      all_recipes == demo_recipes \o real_recipes
      match       == FirstMatch(all_recipes, plant_name, 1)
  IN  /\ threads[t].pc = "idle"
      /\ IF match = 0
           THEN /\ resp' = Response("set_target", plant, 404, 0)
                /\ UNCHANGED <<TARGET_CONFIG, threads, epoch>>
           ELSE /\ TARGET_CONFIG' = EmptyDict
                /\ threads' = [threads EXCEPT ![t] =
                     [Idle EXCEPT !.pc = "update", !.plant = plant,
                                  !.config = all_recipes[match].optimal_config]]
                /\ Disturbed
                /\ UNCHANGED resp
      /\ UNCHANGED <<MODE, latest_readings, history_readings, actuator_states,
                     q_values, real_recipes, now>>

\* TARGET_CONFIG.update(match["optimal_config"]); return TARGET_CONFIG
target_update(t) ==
  LET th == threads[t] IN
  /\ th.pc = "update"
  /\ TARGET_CONFIG' = Merge(TARGET_CONFIG, th.config)
  /\ resp' = Response("set_target", th.plant, 200, TARGET_CONFIG')
  /\ threads' = [threads EXCEPT ![t] = Idle]
  /\ Disturbed
  /\ UNCHANGED <<MODE, latest_readings, history_readings, actuator_states,
                 q_values, real_recipes, now>>

----------------------------------------------------------------------------
(* The requests the environment sends *)

\* Bound: ingests in a run of Spec.
MaxIngest == 2

\* Bound: recipes added in a run.
MaxRecipes == 1

ModeInputs == {"demo", "real", "test"}

ReadingInputs ==
  { ("co2_ppm" :> 900 * H),
    ("co2_ppm" :> 600 * H) @@ ("audio_decibels_db" :> 40 * H) }

RecipeInputs ==
  { Recipe("Lab", ("co2_ppm" :> 600 * H) @@ ("light_brightness_percent" :> 150 * H)) }

PlantInputs == {"Radish", "lab", "nope"}

\* A handler that runs from call to return with no other handler in between.
Alone == UNCHANGED <<threads, epoch>>

Next ==
  \/ \E mode \in {"demo", "real"} : set_mode(mode) /\ Alone
  \/ \E readings \in ReadingInputs :
       now < MaxIngest /\ ingest_sensor_readings(readings) /\ Alone
  \/ auto_adjust_actuators /\ Alone
  \/ \E plant \in PlantInputs : set_target_config(plant) /\ Alone
  \/ \E recipe \in RecipeInputs :
       Len(real_recipes) < MaxRecipes /\ add_recipe(recipe) /\ Alone

Spec == Init /\ [][Next]_vars

\* Bound: ingests in a run of SpecConc, SpecTarget, SpecAct and SpecRec.
MaxIngestSmall == 1

ConcReadingInputs == { ("audio_decibels_db" :> 40 * H) }

ConcPlantInputs == {"broccoli", "nope"}

\* A handler that runs between two steps of the workers.
Between == Disturbed /\ UNCHANGED threads

NextConc ==
  \/ \E mode \in {"demo", "real"} : set_mode(mode) /\ Between
  \/ \E readings \in ConcReadingInputs :
       now < MaxIngestSmall /\ ingest_sensor_readings(readings) /\ Between
  \/ \E t \in Threads : epoch.n < MaxPasses /\ tick_start(t)
  \/ \E t \in Threads : tick_loop(t)
  \/ \E t \in Threads : tick_chk(t)
  \/ \E t \in Threads : tick_init(t)
  \/ \E t \in Threads : tick_select(t)
  \/ \E t \in Threads : tick_apply(t)
  \/ \E t \in Threads : tick_uq_read(t)
  \/ \E t \in Threads : tick_uq_write(t)

SpecConc == Init /\ [][NextConc]_vars

\* One worker runs passes while the other replaces the target.
NextTarget ==
  \/ \E mode \in {"demo", "real"} : set_mode(mode) /\ Between
  \/ \E readings \in ConcReadingInputs :
       now < MaxIngestSmall /\ ingest_sensor_readings(readings) /\ Between
  \/ get_target_config /\ UNCHANGED <<threads, epoch>>
  \/ tick_start("t1")
  \/ tick_loop("t1")
  \/ tick_chk("t1")
  \/ tick_init("t1")
  \/ tick_select("t1")
  \/ tick_apply("t1")
  \/ tick_uq_read("t1")
  \/ tick_uq_write("t1")
  \/ \E plant \in ConcPlantInputs : target_clear("t2", plant)
  \/ target_update("t2")

SpecTarget == Init /\ [][NextTarget]_vars

----------------------------------------------------------------------------
(* The actuator endpoints, with the control loop running between calls *)

ReadInputs == {"grow_lights", "co2_valve", "unknown_device"}

WriteInputs ==
  { <<"grow_lights", ("state" :> Num(75 * H))>>,
    <<"grow_lights", ("state" :> Num(150 * H))>>,
    <<"grow_lights", ("state" :> Str("on"))>>,
    <<"co2_valve", ("state" :> Str("on"))>>,
    <<"co2_valve", ("state" :> Num(75 * H))>>,
    <<"grow_lights", EmptyDict>>,
    <<"unknown_device", ("state" :> Str("on"))>> }

ActReadingInputs ==
  { ("co2_ppm" :> 900 * H) @@ ("light_brightness_percent" :> 20 * H)
      @@ ("audio_decibels_db" :> 40 * H) }

NextAct ==
  \/ \E mode \in {"demo", "real"} : set_mode(mode) /\ Alone
  \/ \E readings \in ActReadingInputs :
       now < MaxIngestSmall /\ ingest_sensor_readings(readings) /\ Alone
  \/ auto_adjust_actuators /\ Alone
  \/ \E device \in ReadInputs : get_actuator(device) /\ Alone
  \/ \E w \in WriteInputs : set_actuator(w[1], w[2]) /\ Alone

SpecAct == Init /\ [][NextAct]_vars

----------------------------------------------------------------------------
(* The history log filled past its capacity *)

\* Bound: ingests in a run of SpecHist.
MaxIngestHist == 1002

HistReadingInputs == { ("co2_ppm" :> 900 * H) }

\* Limits below 1, inside the log, the default, at the capacity and above it
LimitInputs == {-1, 0, 2, 100, HistoryCap, HistoryCap + 1}

NextHist ==
  \/ \E mode \in ModeInputs : set_mode(mode) /\ Alone
  \/ \E readings \in HistReadingInputs :
       now < MaxIngestHist /\ ingest_sensor_readings(readings) /\ Alone
  \/ \E limit \in LimitInputs : get_sensor_history(limit) /\ Alone

SpecHist == Init /\ [][NextHist]_vars

----------------------------------------------------------------------------
(* GET /ai over a grid of readings and targets of one key *)

\* Targets 0, 0.40, 1.00 and -1.00 for pH
RecRecipeInputs ==
  { Recipe("Bench", ("pH" :> t)) : t \in {0, 40, 100, -100} }
  \cup { Recipe("Bench", ("co2_ppm" :> 600 * H)) }

\* Readings on, next to and away from the edges of the acceptable bands
RecReadingInputs ==
  { ("pH" :> v) : v \in {-106, -105, -95, -94, -6, -5, 0, 5, 6, 37, 38, 40, 42,
                         43, 94, 95, 105, 106, 617, 618, 682, 683} }
  \cup { ("co2_ppm" :> 630 * H) }

NextRec ==
  \/ \E mode \in {"demo", "real"} : set_mode(mode) /\ Alone
  \/ \E readings \in RecReadingInputs :
       now < MaxIngestSmall /\ ingest_sensor_readings(readings) /\ Alone
  \/ \E recipe \in RecRecipeInputs :
       Len(real_recipes) < MaxRecipes /\ add_recipe(recipe) /\ Alone
  \/ \E plant \in {"Radish", "bench"} : set_target_config(plant) /\ Alone
  \/ get_ai_recommendations /\ Alone

SpecRec == Init /\ [][NextRec]_vars

----------------------------------------------------------------------------
(* The Q update in the program's own arithmetic.  A Python float is an IEEE  *)
(* 754 binary64 number and every operation rounds its exact result to the    *)
(* nearest one, ties to the even mantissa.  A float is held here as          *)
(* [s, m, e] with value s * m * 2^e, where m is a natural number of exactly  *)
(* MantissaBits bits (or zero), itself a little-endian sequence of limbs of  *)
(* LimbBits bits.  The exponent is not bounded (no overflow, no subnormals)  *)
(* and zero has one sign: comparisons do not tell -0.0 from 0.0.             *)

\* Bits of the significand of a binary64 number
MantissaBits == 53

\* Bits of a limb: the product of two limbs stays below 2^31
LimbBits == 15

LimbBase == 2 ^ LimbBits

RECURSIVE BigNorm(_)
\* without its leading zero limbs
BigNorm(a) ==
  IF a = <<>> THEN a
  ELSE IF a[Len(a)] = 0 THEN BigNorm(SubSeq(a, 1, Len(a) - 1))
  ELSE a

RECURSIVE BigOf(_)
\* the natural number n
BigOf(n) == IF n = 0 THEN <<>> ELSE <<n % LimbBase>> \o BigOf(n \div LimbBase)

Limb(a, i) == IF i <= Len(a) THEN a[i] ELSE 0

Zeros(k) == [i \in 1..k |-> 0]

RECURSIVE BigAddFrom(_, _, _, _)
BigAddFrom(a, b, i, carry) ==
  IF i > Len(a) /\ i > Len(b) THEN (IF carry = 0 THEN <<>> ELSE <<carry>>)
  ELSE LET sum == Limb(a, i) + Limb(b, i) + carry
       IN  <<sum % LimbBase>> \o BigAddFrom(a, b, i + 1, sum \div LimbBase)

BigAdd(a, b) == BigNorm(BigAddFrom(a, b, 1, 0))

RECURSIVE BigSubFrom(_, _, _, _)
BigSubFrom(a, b, i, borrow) ==
  IF i > Len(a) THEN <<>>
  ELSE LET diff == a[i] - Limb(b, i) - borrow
       IN  <<diff % LimbBase>>
             \o BigSubFrom(a, b, i + 1, IF diff < 0 THEN 1 ELSE 0)

\* a - b, for a >= b
BigSub(a, b) == BigNorm(BigSubFrom(a, b, 1, 0))

RECURSIVE BigCmpFrom(_, _, _)
BigCmpFrom(a, b, i) ==
  IF i = 0 THEN 0
  ELSE IF a[i] # b[i] THEN (IF a[i] < b[i] THEN -1 ELSE 1)
  ELSE BigCmpFrom(a, b, i - 1)

\* -1, 0 or 1 as a is below, equal to or above b
BigCmp(a, b) ==
  IF Len(a) # Len(b) THEN (IF Len(a) < Len(b) THEN -1 ELSE 1)
  ELSE BigCmpFrom(a, b, Len(a))

RECURSIVE BigMulSmallFrom(_, _, _, _)
BigMulSmallFrom(a, c, i, carry) ==
  IF i > Len(a) THEN (IF carry = 0 THEN <<>> ELSE <<carry>>)
  ELSE LET prod == a[i] * c + carry
       IN  <<prod % LimbBase>> \o BigMulSmallFrom(a, c, i + 1, prod \div LimbBase)

\* a * c, for a limb c
BigMulSmall(a, c) == BigNorm(BigMulSmallFrom(a, c, 1, 0))

RECURSIVE BigMulFrom(_, _, _)
BigMulFrom(a, b, j) ==
  IF j > Len(b) THEN <<>>
  ELSE BigAdd(Zeros(j - 1) \o BigMulSmall(a, b[j]), BigMulFrom(a, b, j + 1))

BigMul(a, b) == BigNorm(BigMulFrom(a, b, 1))

RECURSIVE BigDivSmallFrom(_, _, _, _)
\* limbs 1..i of the quotient of (rem, a[i], ..., a[1]) by c
BigDivSmallFrom(a, c, i, rem) ==
  IF i = 0 THEN <<>>
  ELSE LET cur == rem * LimbBase + a[i]
       IN  BigDivSmallFrom(a, c, i - 1, cur % c) \o <<cur \div c>>

\* a \div c, for a limb c > 0
BigDivSmall(a, c) == BigNorm(BigDivSmallFrom(a, c, Len(a), 0))

RECURSIVE BigModSmallFrom(_, _, _, _)
BigModSmallFrom(a, c, i, rem) ==
  IF i = 0 THEN rem
  ELSE BigModSmallFrom(a, c, i - 1, (rem * LimbBase + a[i]) % c)

\* a % c, for a limb c > 0
BigModSmall(a, c) == BigModSmallFrom(a, c, Len(a), 0)

\* a * 2^k
BigShl(a, k) ==
  IF a = <<>> THEN a
  ELSE Zeros(k \div LimbBits) \o BigMulSmall(a, 2 ^ (k % LimbBits))

\* a \div 2^k
BigShr(a, k) ==
  IF k \div LimbBits >= Len(a) THEN <<>>
  ELSE BigDivSmall(SubSeq(a, (k \div LimbBits) + 1, Len(a)), 2 ^ (k % LimbBits))

RECURSIVE BitLenSmall(_)
BitLenSmall(x) == IF x = 0 THEN 0 ELSE 1 + BitLenSmall(x \div 2)

\* the number of bits of a
BitLen(a) ==
  IF a = <<>> THEN 0 ELSE (Len(a) - 1) * LimbBits + BitLenSmall(a[Len(a)])

BigOdd(a) == a # <<>> /\ a[1] % 2 = 1

\* 0.0
FZero == [s |-> 1, m |-> <<>>, e |-> 0]

\* The float nearest to s * N * 2^e, ties to the even mantissa.
FRound(s, N, e) ==
  IF N = <<>> THEN FZero
  ELSE
    LET len == BitLen(N) IN
    IF len <= MantissaBits
      THEN [s |-> s, m |-> BigShl(N, MantissaBits - len),
            e |-> e - (MantissaBits - len)]
    ELSE
      LET k    == len - MantissaBits
          q    == BigShr(N, k)
          rem  == BigSub(N, BigShl(q, k))
          half == BigCmp(rem, BigShl(<<1>>, k - 1))
          q1   == IF half = 1 \/ (half = 0 /\ BigOdd(q))
                    THEN BigAdd(q, <<1>>) ELSE q
      IN  IF BitLen(q1) > MantissaBits
            THEN [s |-> s, m |-> BigShr(q1, 1), e |-> e + k + 1]
            ELSE [s |-> s, m |-> q1, e |-> e + k]

\* -x
FNeg(x) == IF x.m = <<>> THEN x ELSE [x EXCEPT !.s = -x.s]

\* abs(x)
FAbs(x) == [x EXCEPT !.s = 1]

\* x + y
FAdd(x, y) ==
  IF x.m = <<>> THEN y
  ELSE IF y.m = <<>> THEN x
  ELSE
    LET e  == IF x.e < y.e THEN x.e ELSE y.e
        nx == BigShl(x.m, x.e - e)
        ny == BigShl(y.m, y.e - e)
        c  == BigCmp(nx, ny)
    IN  IF x.s = y.s THEN FRound(x.s, BigAdd(nx, ny), e)
        ELSE IF c = 0 THEN FZero
        ELSE IF c = 1 THEN FRound(x.s, BigSub(nx, ny), e)
        ELSE FRound(y.s, BigSub(ny, nx), e)

\* x - y
FSub(x, y) == FAdd(x, FNeg(y))

\* x * y
FMul(x, y) ==
  IF x.m = <<>> \/ y.m = <<>> THEN FZero
  ELSE FRound(x.s * y.s, BigMul(x.m, y.m), x.e + y.e)

FSign(x) == IF x.m = <<>> THEN 0 ELSE x.s

\* -1, 0 or 1 as x < y, x == y or x > y
FCmp(x, y) ==
  IF FSign(x) # FSign(y) THEN (IF FSign(x) < FSign(y) THEN -1 ELSE 1)
  ELSE IF FSign(x) = 0 THEN 0
  ELSE IF x.e # y.e THEN (IF x.e < y.e THEN -x.s ELSE x.s)
  ELSE x.s * BigCmp(x.m, y.m)

\* The float a number held in hundredths stands for: the float nearest to
\* n / 100, as the parse of its decimal form gives.
FromHundredths(n) ==
  IF n = 0 THEN FZero
  ELSE
    LET a == BigShl(BigOf(Abs(n)), 64)
        q == BigDivSmall(a, H)
        N == IF BigModSmall(a, H) = 0 THEN BigShl(q, 1)
             ELSE BigAdd(BigShl(q, 1), <<1>>)
    IN  FRound(IF n < 0 THEN -1 ELSE 1, N, -65)

\* lr: float = 0.1
LearningRate == FromHundredths(10)

ZeroRowFloat == [a \in {-1, 0, 1} |-> FZero]

\* if sensor not in q_values: q_values[sensor] = {-1: 0.0, 0: 0.0, 1: 0.0}
WithRowFloat(q, sensor) ==
  IF sensor \in DOMAIN q THEN q ELSE Put(q, sensor, ZeroRowFloat)

\* Mutant: among equal estimates the last key of the row wins
BestActionFloatLast(row) ==
  IF FCmp(row[1], row[0]) >= 0 /\ FCmp(row[1], row[-1]) >= 0 THEN 1
  ELSE IF FCmp(row[0], row[-1]) >= 0 THEN 0
  ELSE -1

\* max(actions, key=actions.get) on float estimates
BestActionFloat(row) ==
  IF FCmp(row[-1], row[0]) >= 0 /\ FCmp(row[-1], row[1]) >= 0 THEN -1
  ELSE IF FCmp(row[0], row[1]) >= 0 THEN 0
  ELSE 1

\* reward = -abs(value - target)
RewardFloat(value, target) ==
  FNeg(FAbs(FSub(FromHundredths(value), FromHundredths(target))))

\* current_q + lr * (reward - current_q)
LearnedFloat(current_q, value, target) ==
  FAdd(current_q,
       FMul(LearningRate, FSub(RewardFloat(value, target), current_q)))

update_q_float(q, sensor, action, value, target) ==
  LET q1 == WithRowFloat(q, sensor)
  IN  Put(q1, sensor,
          [q1[sensor] EXCEPT
             ![action] = LearnedFloat(q1[sensor][action], value, target)])

\* One iteration of the for loop over mappings, on st = [acts, q].
LoopBodyFloat(sensor_key, st, target_config, readings) ==
  IF Skipped(sensor_key, target_config, readings) THEN st
  ELSE LET target == target_config[sensor_key]
           value  == readings[sensor_key]
           q1     == WithRowFloat(st.q, sensor_key)
           action == BestActionFloat(q1[sensor_key])
       IN  [acts |-> apply_action(sensor_key, action, st.acts, target_config),
            q    |-> update_q_float(q1, sensor_key, action, value, target)]

RECURSIVE PassFloat(_, _, _, _)
PassFloat(i, st, target_config, readings) ==
  IF i > Len(MappingKeys) THEN st
  ELSE PassFloat(i + 1, LoopBodyFloat(MappingKeys[i], st, target_config, readings),
                 target_config, readings)

\* auto_adjust_actuators(), run without interruption, in float arithmetic
auto_adjust_actuators_float ==
  LET st == PassFloat(1, [acts |-> actuator_states, q |-> q_values],
                      TARGET_CONFIG, latest_readings)
  IN  /\ IF MODE # "real" THEN UNCHANGED <<actuator_states, q_values>>
         ELSE /\ actuator_states' = st.acts
              /\ q_values' = st.q
      /\ resp' = Response("auto_adjust", 0, 0, 0)
      /\ UNCHANGED <<MODE, latest_readings, history_readings, TARGET_CONFIG,
                     real_recipes, now>>

\* Bound: passes of a run of SpecFloat in which co2_ppm is adjusted.
MaxTicks == 1000

FloatReadingInputs == { ("co2_ppm" :> 900 * H), ("co2_ppm" :> 600 * H) }

\* The count of the passes that adjust co2_ppm, kept beside the program.
Counted ==
  /\ epoch' = [epoch EXCEPT !.n =
                 IF MODE = "real" /\ ~Skipped("co2_ppm", TARGET_CONFIG, latest_readings)
                   THEN @ + 1 ELSE @]
  /\ UNCHANGED threads

\* One batch is ingested, once: the reading is then the same at every pass,
\* as is the target (no request changes it).
NextFloat ==
  \/ \E mode \in {"demo", "real"} : set_mode(mode) /\ Alone
  \/ \E readings \in FloatReadingInputs :
       latest_readings = EmptyDict /\ ingest_sensor_readings(readings) /\ Alone
  \/ epoch.n < MaxTicks /\ auto_adjust_actuators_float /\ Counted

SpecFloat == Init /\ [][NextFloat]_vars

----------------------------------------------------------------------------
(* Claims *)

Min(a, b) == IF a < b THEN a ELSE b

\* C1: the history log never holds more than HistoryCap entries, and it is
\* always the most recent ingests, oldest first: after n successful ingests
\* it holds ingests n - Len + 1 .. n in order, with Len = min(n, HistoryCap),
\* so the ingest past the capacity evicts exactly the oldest entry.
C1_HistoryBounded ==
  /\ Len(history_readings) <= HistoryCap
  /\ Len(history_readings) = Min(now, HistoryCap)
  /\ \A i \in 1..Len(history_readings) :
       history_readings[i].timestamp = now - Len(history_readings) + i

\* The 1001st ingest has returned: the log holds ingests 2..1001.
C1_Witness ==
  /\ resp.op = "ingest" /\ resp.status = 200
  /\ now = HistoryCap + 1
  /\ Len(history_readings) = HistoryCap
  /\ history_readings[1].timestamp = 2
  /\ history_readings[HistoryCap].timestamp = HistoryCap + 1


\* An eligible key: the pass finds both a reading and a target for it.
Eligible(k) == k \in DOMAIN latest_readings /\ k \in DOMAIN TARGET_CONFIG

MappingSet == {MappingKeys[i] : i \in 1..Len(MappingKeys)}

\* C2: when a successful ingest returns, a control-loop pass has run as part
\* of it, so every mapped key with a reading and a target has a Q-table row.
C2_IngestRunsPass ==
  (resp.op = "ingest" /\ resp.status = 200) =>
    \A k \in MappingSet : Eligible(k) => k \in DOMAIN q_values

\* The kind the configuration fixes for each actuator.
PercentIds == {"grow_lights", "fans", "audio_transducers"}

KindOK(device, v) ==
  IF device \in PercentIds
    THEN v.kind = "num" /\ 0 <= v.n /\ v.n <= 100 * H
    ELSE v.kind = "str" /\ v.s \in {"on", "off"}

\* C3: a write to a known actuator of a state of the wrong kind does not
\* succeed.
C3_InvalidStateRejected ==
  ( /\ resp.op = "set_actuator"
    /\ resp.args.device \in ActuatorIds
    /\ "state" \in DOMAIN resp.args.state
    /\ ~KindOK(resp.args.device, resp.args.state["state"]) )
  => resp.status # 200

\* C4: every actuator holds a value of its fixed kind.
C4_KindInvariant ==
  \A d \in DOMAIN actuator_states : KindOK(d, actuator_states[d])

\* C5: a read that directly follows a successful write of s to the same
\* actuator returns s; a read of an unknown id, and in real mode a write to
\* one, returns 404 and leaves the registry as it was; the registry never
\* gains an id.
C5_Step ==
  /\ ( /\ resp.op = "set_actuator" /\ resp.status = 200
       /\ resp'.op = "get_actuator" /\ resp'.args = resp.args.device )
     => ( /\ resp'.status = 200
          /\ resp'.body.dev = resp.args.device
          /\ resp'.body.state = resp.args.state["state"] )
  /\ (resp'.op = "get_actuator" /\ resp'.args \notin ActuatorIds)
     => (resp'.status = 404 /\ actuator_states' = actuator_states)
  /\ ( /\ resp'.op = "set_actuator" /\ resp'.args.device \notin ActuatorIds
       /\ MODE = "real" )
     => (resp'.status = 404 /\ actuator_states' = actuator_states)
  /\ DOMAIN actuator_states' = ActuatorIds

Drives(k) ==
  CASE k = "co2_ppm" -> {"co2_valve"}
    [] k = "air_temp_celsius" -> {"heaters", "fans"}
    [] k = "humidity_percent" -> {"fans"}
    [] k = "water_flow_rate_lpm" -> {"water_pump"}
    [] k = "audio_decibels_db" -> {"audio_transducers"}
    [] k = "light_brightness_percent" -> {"grow_lights"}

\* C6: a pass leaves alone every mapped key that lacks a reading or a target:
\* the key's Q row is neither created nor changed, the actuators only such
\* keys drive are unchanged, and if no key is eligible the whole registry is
\* unchanged.
C6_Step ==
  auto_adjust_actuators =>
    /\ \A k \in MappingSet :
         ~Eligible(k) =>
           /\ (k \in DOMAIN q_values') <=> (k \in DOMAIN q_values)
           /\ k \in DOMAIN q_values => q_values'[k] = q_values[k]
           /\ \A d \in Drives(k) :
                (\A j \in MappingSet : Eligible(j) => d \notin Drives(j))
                  => actuator_states'[d] = actuator_states[d]
    /\ (\A k \in MappingSet : ~Eligible(k)) => actuator_states' = actuator_states

C6_SkipIsNoOp == [][C6_Step]_vars

\* A pass in real mode has just returned; it acted on co2_ppm and skipped
\* audio_decibels_db (a reading, no target) and light_brightness_percent (a
\* target, no reading).
C6_Witness ==
  /\ resp.op = "auto_adjust" /\ MODE = "real"
  /\ "audio_decibels_db" \in DOMAIN latest_readings
  /\ "audio_decibels_db" \notin DOMAIN TARGET_CONFIG
  /\ "audio_decibels_db" \notin DOMAIN q_values
  /\ "light_brightness_percent" \in DOMAIN TARGET_CONFIG
  /\ "light_brightness_percent" \notin DOMAIN latest_readings
  /\ "light_brightness_percent" \notin DOMAIN q_values
  /\ "co2_ppm" \in DOMAIN q_values
  /\ actuator_states["audio_transducers"] = Num(0)


AllIdle == \A t \in Threads : threads[t].pc = "idle"

\* The Q-table after n passes run one after the other from q, with the
\* readings and the target as they are now.
RECURSIVE SerialPasses(_, _)
SerialPasses(n, st) ==
  IF n = 0 THEN st
  ELSE SerialPasses(n - 1, Pass(1, st, TARGET_CONFIG, latest_readings))

\* C7: two passes that ran concurrently, with readings, target and mode
\* unchanged meanwhile, leave the Q-table that two passes run one after the
\* other leave (the two orders give the same table, both passes being the
\* same operation).
C7_SerialResult ==
  (AllIdle /\ epoch.n = 2 /\ epoch.steady) =>
    LET serial == SerialPasses(2, [acts |-> actuator_states, q |-> epoch.q0,
                                   exact |-> TRUE])
    IN  serial.exact => q_values = serial.q

\* The configurations a complete SetTarget can leave.
CompleteConfigs ==
  {(demo_recipes \o real_recipes)[i].optimal_config :
     i \in 1..Len(demo_recipes \o real_recipes)}

\* C8: a GetTarget never returns anything but a complete configuration.
C8_ObservedComplete ==
  (resp.op = "get_target" /\ resp.status = 200) => resp.body \in CompleteConfigs

C10_Step == MODE = "demo" => actuator_states' = actuator_states

C10_DemoFrozen == [][C10_Step]_vars


\* C11: a successful ingest sets the stored reading of every key of the
\* batch to the batch's value, leaves every other stored reading as it was,
\* adds one entry holding the batch at the end of the log (dropping the
\* oldest at capacity) and returns the number of keys of the batch.
C11_Step ==
  (resp'.op = "ingest" /\ resp'.status = 200 /\ now' # now) =>
    LET batch == resp'.args
        n     == Len(history_readings)
        n1    == Len(history_readings')
    IN  /\ DOMAIN latest_readings' = DOMAIN latest_readings \cup DOMAIN batch
        /\ \A k \in DOMAIN batch : latest_readings'[k] = batch[k]
        /\ \A k \in DOMAIN latest_readings \ DOMAIN batch :
             latest_readings'[k] = latest_readings[k]
        /\ n1 = Min(n + 1, HistoryCap)
        /\ history_readings'[n1].readings = batch
        /\ \A i \in 1..(n1 - 1) :
             history_readings'[i] = history_readings[i + (n + 1 - n1)]
        /\ resp'.body = Cardinality(DOMAIN batch)

C11_IngestEffect == [][C11_Step]_vars

\* The second ingest, of co2_ppm alone, has returned 1: the reading of
\* audio_decibels_db from the first ingest is still stored.
C11_Witness ==
  /\ resp.op = "ingest" /\ resp.status = 200 /\ resp.body = 1
  /\ resp.args = ("co2_ppm" :> 900 * H)
  /\ latest_readings = ("co2_ppm" :> 900 * H) @@ ("audio_decibels_db" :> 40 * H)
  /\ Len(history_readings) = 2
  /\ history_readings[2].readings = ("co2_ppm" :> 900 * H)


\* C12 as stated: on a non-empty log ReadHistory(limit) returns the last
\* min(max(limit, 1), length) entries in their order, newest last, and on an
\* empty log it returns the empty sequence.
C12_AnyMode ==
  resp.op = "history" =>
    LET n == Len(history_readings)
        c == Min(IF resp.args > 1 THEN resp.args ELSE 1, n)
    IN  /\ resp.status = 200
        /\ Len(resp.body) = c
        /\ \A i \in 1..c : resp.body[i] = history_readings[n - c + i]

\* C12, amended: in real mode ReadHistory(limit) returns the last
\* min(max(limit, 1), length) entries of the log in their order, newest last
\* (the empty sequence on an empty log); outside real mode it returns the
\* empty sequence whatever the log holds.  It never fails.
C12_ReadHistory ==
  resp.op = "history" =>
    LET n == Len(history_readings)
        c == Min(IF resp.args > 1 THEN resp.args ELSE 1, n)
    IN  /\ resp.status = 200
        /\ MODE = "real" =>
             /\ Len(resp.body) = c
             /\ \A i \in 1..c : resp.body[i] = history_readings[n - c + i]
        /\ MODE # "real" => resp.body = <<>>

\* A read with limit 0 of a log of three entries, in real mode, has returned
\* the newest entry alone.
C12_Witness ==
  /\ resp.op = "history" /\ resp.args = 0 /\ MODE = "real"
  /\ Len(history_readings) = 3
  /\ resp.body = << history_readings[3] >>


\* a has the greatest estimate of the row, and every action before it in the
\* order Decrease (-1), Maintain (0), Increase (1) has a smaller one.
FirstMax(row, a) ==
  /\ \A b \in {-1, 0, 1} : row[b] <= row[a]
  /\ \A b \in {-1, 0, 1} : b < a => row[b] < row[a]

\* C13: SelectAction creates the key's row with three zero estimates when the
\* key has none, and returns the action with the greatest estimate of the
\* row, the first in the order Decrease, Maintain, Increase among equals; on
\* an all-zero row it returns Decrease.
C13_Step ==
  \A t \in Threads :
    LET key == MappingKeys[threads[t].i] IN
    /\ (threads[t].pc = "chk" /\ threads'[t].pc = "select") =>
         key \in DOMAIN q_values
    /\ (threads[t].pc = "init" /\ threads'[t].pc = "select") =>
         key \in DOMAIN q_values' /\ q_values'[key] = ZeroRow
    /\ (threads[t].pc = "select" /\ threads'[t].pc = "apply") =>
         /\ key \in DOMAIN q_values
         /\ q_values' = q_values
         /\ FirstMax(q_values[key], threads'[t].action)
         /\ q_values[key] = ZeroRow => threads'[t].action = -1

C13_SelectAction == [][C13_Step]_vars

\* A selection has returned Maintain from a row whose Maintain and Increase
\* estimates are equal and above the Decrease estimate.
C13_Witness ==
  \E t \in Threads :
    /\ threads[t].pc = "apply" /\ threads[t].action = 0
    /\ MappingKeys[threads[t].i] \in DOMAIN q_values
    /\ LET row == q_values[MappingKeys[threads[t].i]]
       IN  row[0] = row[1] /\ row[-1] < row[0]

\* A selection has returned Decrease from a row created all-zero.
C13_WitnessZero ==
  \E t \in Threads :
    /\ threads[t].pc = "apply" /\ threads[t].action = -1
    /\ MappingKeys[threads[t].i] \in DOMAIN q_values
    /\ q_values[MappingKeys[threads[t].i]] = ZeroRow


\* The row a pass finds for key k: the stored one, or all zero.
RowBefore(k) == IF k \in DOMAIN q_values THEN q_values[k] ELSE ZeroRow

\* -|v - t| in the unit of the estimates.
Error(k) == -Abs(latest_readings[k] - TARGET_CONFIG[k]) * (QScale \div H)

\* new = old + 0.1 * (reward - old), free of division
Moved(old, new, reward) == 10 * (new - old) = reward - old

\* C14: in a Tick, for every eligible key, the estimate of the action
\* selected from the key's row becomes estimate + 0.1 * (-|v - t| - estimate)
\* for the reading v and target t of the key; the row's other two estimates
\* are unchanged, and so is the row of every key that is not eligible.
C14_Step ==
  (auto_adjust_actuators /\ MODE = "real") =>
    /\ \A k \in MappingSet :
         Eligible(k) =>
           /\ k \in DOMAIN q_values'
           /\ \E a \in {-1, 0, 1} :
                /\ FirstMax(RowBefore(k), a)
                /\ Moved(RowBefore(k)[a], q_values'[k][a], Error(k))
                /\ \A b \in {-1, 0, 1} \ {a} : q_values'[k][b] = RowBefore(k)[b]
    /\ \A k \in DOMAIN q_values' :
         ~(k \in MappingSet /\ Eligible(k)) =>
           k \in DOMAIN q_values /\ q_values'[k] = q_values[k]

C14_UpdateRule == [][C14_Step]_vars

\* A fourth Tick on co2_ppm = 900 against the target 600 has moved the
\* Decrease estimate from -30 to -57; Maintain and Increase stay at -30.
C14_Witness ==
  /\ resp.op = "auto_adjust" /\ MODE = "real"
  /\ "co2_ppm" \in DOMAIN latest_readings /\ latest_readings["co2_ppm"] = 900 * H
  /\ "co2_ppm" \in DOMAIN q_values
  /\ q_values["co2_ppm"][-1] = -57 * QScale
  /\ q_values["co2_ppm"][0] = -30 * QScale
  /\ q_values["co2_ppm"][1] = -30 * QScale


\* The scenario of C15: real mode, co2_ppm read as 900 against a target of 600.
Co2Scenario ==
  /\ MODE = "real"
  /\ "co2_ppm" \in DOMAIN latest_readings /\ latest_readings["co2_ppm"] = 900 * H
  /\ "co2_ppm" \in DOMAIN TARGET_CONFIG /\ TARGET_CONFIG["co2_ppm"] = 600 * H

\* The co2_ppm row with Decrease at d, Maintain at m and Increase at i.
Co2Row(d, m, i) ==
  /\ "co2_ppm" \in DOMAIN q_values
  /\ q_values["co2_ppm"][-1] = d * QScale
  /\ q_values["co2_ppm"][0] = m * QScale
  /\ q_values["co2_ppm"][1] = i * QScale

\* C15: with an empty Q-table, in real mode, co2_ppm = 900 and target 600,
\* the first Tick selects Decrease: it sets co2_valve to 'off' and the
\* Decrease estimate to -30.0, the other two staying 0.0.  The second Tick on
\* the same inputs selects Maintain: it moves the Maintain estimate to -30.0,
\* leaves the other two and keeps co2_valve 'off'.
C15_Step ==
  (auto_adjust_actuators /\ Co2Scenario) =>
    /\ q_values = EmptyDict =>
         /\ Co2Row(-30, 0, 0)'
         /\ actuator_states'["co2_valve"] = Str("off")
    /\ Co2Row(-30, 0, 0) =>
         /\ Co2Row(-30, -30, 0)'
         /\ actuator_states'["co2_valve"] = Str("off")

C15_ColdStart == [][C15_Step]_vars

\* The second Tick of the scenario has run.
C15_Witness ==
  /\ resp.op = "auto_adjust" /\ Co2Scenario
  /\ Co2Row(-30, -30, 0)
  /\ actuator_states["co2_valve"] = Str("off")
  /\ DOMAIN q_values = {"co2_ppm"}


\* The actuator that follows the target of a target-following key.
Follower(k) ==
  IF k = "audio_decibels_db" THEN "audio_transducers" ELSE "grow_lights"

\* C16: a Tick in which audio_decibels_db (resp. light_brightness_percent)
\* has a reading and a target sets audio_transducers (resp. grow_lights) to
\* the key's current target value, whatever the action selected, the reading
\* and the value the actuator held; the selected action's estimate is
\* updated all the same.
C16_Step ==
  (auto_adjust_actuators /\ MODE = "real") =>
    \A k \in {"audio_decibels_db", "light_brightness_percent"} :
      Eligible(k) =>
        /\ actuator_states'[Follower(k)] = Num(TARGET_CONFIG[k])
        /\ k \in DOMAIN q_values'
        /\ \E a \in {-1, 0, 1} :
             /\ FirstMax(RowBefore(k), a)
             /\ Moved(RowBefore(k)[a], q_values'[k][a], Error(k))

C16_TargetSnap == [][C16_Step]_vars

\* The second Tick on light 20 against the target 80, and audio 40 against
\* 60, has selected Maintain for both keys (the Maintain estimates have moved
\* to -6 and -2): grow_lights is at 80 and audio_transducers at 60.
C16_Witness ==
  /\ resp.op = "auto_adjust" /\ MODE = "real"
  /\ Eligible("light_brightness_percent") /\ Eligible("audio_decibels_db")
  /\ latest_readings["light_brightness_percent"] = 20 * H
  /\ "light_brightness_percent" \in DOMAIN q_values
  /\ q_values["light_brightness_percent"][0] = -6 * QScale
  /\ "audio_decibels_db" \in DOMAIN q_values
  /\ q_values["audio_decibels_db"][0] = -2 * QScale
  /\ actuator_states["grow_lights"] = Num(80 * H)
  /\ actuator_states["audio_transducers"] = Num(60 * H)


\* co2_ppm has been ingested and its target is in force.
Co2Read ==
  /\ "co2_ppm" \in DOMAIN latest_readings
  /\ "co2_ppm" \in DOMAIN TARGET_CONFIG

\* The co2_ppm row a pass of SpecFloat finds: the stored one or all zero.
Co2RowFloat ==
  IF "co2_ppm" \in DOMAIN q_values THEN q_values["co2_ppm"] ELSE ZeroRowFloat

AllEqual(row) == row[-1] = row[0] /\ row[0] = row[1]

\* The n-th pass of a cycle Decrease, Maintain, Increase selects this action.
CycleAt(n) == ((n - 1) % 3) - 1

\* C17 as stated: with the reading and the target of co2_ppm constant and
\* unequal, the passes select Decrease, Maintain, Increase, Decrease, ... for
\* ever: after the n-th pass the estimates of the actions selected so far in
\* the current round are strictly below the others and co2_valve is 'on'
\* exactly when n is a multiple of 3.  With the reading equal to the target
\* every pass selects Decrease and all estimates stay 0.
C17_CycleForever ==
  (Co2Read /\ epoch.n >= 1) =>
    LET row == Co2RowFloat IN
    IF latest_readings["co2_ppm"] # TARGET_CONFIG["co2_ppm"]
      THEN /\ actuator_states["co2_valve"] =
                IF CycleAt(epoch.n) = 1 THEN Str("on") ELSE Str("off")
           /\ CycleAt(epoch.n) = -1 => FCmp(row[-1], row[0]) = -1 /\ row[0] = row[1]
           /\ CycleAt(epoch.n) = 0 => row[-1] = row[0] /\ FCmp(row[0], row[1]) = -1
           /\ CycleAt(epoch.n) = 1 => AllEqual(row)
      ELSE /\ row = ZeroRowFloat
           /\ actuator_states["co2_valve"] = Str("off")

\* The update leaves the estimate x where it is.
Stationary(x) ==
  LearnedFloat(x, latest_readings["co2_ppm"], TARGET_CONFIG["co2_ppm"]) = x

\* The action a pass selects on a row of the cycle: Decrease when the three
\* estimates are equal, else the first action that is a step behind.
NextInCycle(row) ==
  IF AllEqual(row) THEN -1 ELSE IF row[-1] # row[0] THEN 0 ELSE 1

\* C17, amended: with the reading and the target of co2_ppm constant and
\* unequal, starting from an all-zero row, the passes select Decrease,
\* Maintain, Increase in turn, and every third pass sets co2_valve to 'on',
\* for as long as the update still changes the estimate it is applied to.
\* The estimates converge in float arithmetic: once the three are equal and
\* the update leaves that value where it is, every pass selects Decrease,
\* changes no estimate and sets co2_valve to 'off'.  With the reading equal
\* to the target every pass selects Decrease and all estimates stay 0.
C17_Step ==
  (Co2Read /\ epoch'.n = epoch.n + 1) =>
    LET row    == Co2RowFloat
        value  == latest_readings["co2_ppm"]
        target == TARGET_CONFIG["co2_ppm"]
        a      == NextInCycle(row)
        locked == AllEqual(row) /\ Stationary(row[-1])
    IN  IF value # target
          THEN /\ FCmp(row[-1], row[0]) <= 0 /\ FCmp(row[0], row[1]) <= 0
               /\ row[-1] = row[0] \/ row[0] = row[1]
               /\ ~locked => a = CycleAt(epoch'.n)
               /\ ~locked => FCmp(LearnedFloat(row[a], value, target), row[a]) = -1
               /\ locked => a = -1 /\ q_values'["co2_ppm"] = row
               /\ q_values'["co2_ppm"] =
                    [row EXCEPT ![a] = LearnedFloat(row[a], value, target)]
               /\ actuator_states'["co2_valve"] =
                    IF a = 1 THEN Str("on") ELSE Str("off")
          ELSE /\ q_values'["co2_ppm"] = ZeroRowFloat
               /\ actuator_states'["co2_valve"] = Str("off")

C17_CycleUntilStationary == [][C17_Step]_vars

\* After a number of passes that is a multiple of 3, on co2_ppm = 900 against
\* the target 600, the three estimates are equal and stationary and the last
\* pass has set co2_valve to 'off'.
C17_Witness ==
  /\ Co2Read /\ MODE = "real" /\ resp.op = "auto_adjust"
  /\ latest_readings["co2_ppm"] = 900 * H /\ TARGET_CONFIG["co2_ppm"] = 600 * H
  /\ epoch.n >= 3 /\ epoch.n % 3 = 0
  /\ AllEqual(Co2RowFloat) /\ Stationary(Co2RowFloat[-1])
  /\ Co2RowFloat # ZeroRowFloat
  /\ actuator_states["co2_valve"] = Str("off")

====
